---- MODULE Spec2Model ----
(***************************************************************************)
(* RuntimeClient (sdk/python/claude_workflow/client.py): a synchronous     *)
(* client for the runtime sidecar API.  One client object, one field       *)
(* (_base_url), three public operations (start_run, get_status,            *)
(* abort_run), each a blocking exchange through urllib.request.urlopen.    *)
(*                                                                         *)
(* Representation.                                                         *)
(*   Text (a Python str or bytes read off the wire) is a sequence of       *)
(*   tokens; a token is [q, s]: q = TRUE is the JSON string literal "s"    *)
(*   with its quotes, q = FALSE is the bare text s.  Whitespace between    *)
(*   JSON tokens is not represented.                                       *)
(*   Python values are tagged records: None, str, int, list, dict (an      *)
(*   insertion-ordered sequence of <<key, value>> pairs), bytes, and       *)
(*   "text" for a str that is raw wire text rather than a decoded literal. *)
(***************************************************************************)
EXTENDS Integers, Sequences, FiniteSets, TLC

\* ------------------------------------------------------------------ bounds
MaxSlashes == 2      \* trailing '/' characters on the constructor argument
MaxHops    == 1      \* redirects the server answers with during one call
MaxInt     == 1      \* largest integer literal in a JSON text

\* ------------------------------------------------------------ text, values
Q(s) == [q |-> TRUE,  s |-> s]
B(s) == [q |-> FALSE, s |-> s]

None      == [k |-> "None"]
Str(s)    == [k |-> "str",   s |-> s]
PyInt(n)  == [k |-> "int",   n |-> n]
List(a)   == [k |-> "list",  a |-> a]
Dict(o)   == [k |-> "dict",  o |-> o]
Bytes(b)  == [k |-> "bytes", b |-> b]
RawStr(t) == [k |-> "text",  t |-> t]

\* Python truth value of an object (the `if body`, `if data` tests)
Truthy(v) ==
    CASE v.k = "None"  -> FALSE
      [] v.k = "str"   -> v.s # ""
      [] v.k = "int"   -> v.n # 0
      [] v.k = "list"  -> v.a # <<>>
      [] v.k = "dict"  -> v.o # <<>>
      [] v.k = "bytes" -> v.b # <<>>
      [] v.k = "text"  -> v.t # <<>>

\* dict[key] = val: replaces the value of an existing key, else appends
DictSet(o, key, val) ==
    IF \E i \in DOMAIN o : o[i][1] = key
    THEN [i \in DOMAIN o |-> IF o[i][1] = key THEN <<key, val>> ELSE o[i]]
    ELSE Append(o, <<key, val>>)

HasKey(o, key) == \E i \in DOMAIN o : o[i][1] = key

\* dict.get(key, default)
DictGet(o, key, default) ==
    IF HasKey(o, key)
    THEN o[CHOOSE i \in DOMAIN o : o[i][1] = key][2]
    ELSE default

\* -------------------------------------------------------------- json.dumps
RECURSIVE Dumps(_)
RECURSIVE DumpElems(_)
RECURSIVE DumpMembers(_)

DumpElems(a) ==
    IF a = <<>> THEN <<>>
    ELSE IF Len(a) = 1 THEN Dumps(a[1])
    ELSE Dumps(a[1]) \o <<B(",")>> \o DumpElems(Tail(a))

DumpMembers(o) ==
    IF o = <<>> THEN <<>>
    ELSE IF Len(o) = 1 THEN <<Q(o[1][1]), B(":")>> \o Dumps(o[1][2])
    ELSE <<Q(o[1][1]), B(":")>> \o Dumps(o[1][2]) \o <<B(",")>> \o DumpMembers(Tail(o))

Dumps(v) ==
    CASE v.k = "None" -> <<B("null")>>
      [] v.k = "str"  -> <<Q(v.s)>>
      [] v.k = "int"  -> <<B(ToString(v.n))>>
      [] v.k = "list" -> <<B("[")>> \o DumpElems(v.a) \o <<B("]")>>
      [] v.k = "dict" -> <<B("{")>> \o DumpMembers(v.o) \o <<B("}")>>

\* -------------------------------------------------------------- json.loads
IntLits == {ToString(n) : n \in 0..MaxInt}
IntOf(s) == CHOOSE n \in 0..MaxInt : ToString(n) = s

Fail == [ok |-> FALSE, v |-> None, rest |-> <<>>]
Ok(v, rest) == [ok |-> TRUE, v |-> v, rest |-> rest]

RECURSIVE ParseValue(_)
RECURSIVE ParseElems(_, _)
RECURSIVE ParseMembers(_, _)

\* elements of an array after '[' (at least one), up to and including ']'
ParseElems(t, acc) ==
    LET r == ParseValue(t) IN
    IF ~r.ok \/ r.rest = <<>> THEN Fail
    ELSE LET sep == Head(r.rest) IN
         IF sep = B(",") THEN ParseElems(Tail(r.rest), Append(acc, r.v))
         ELSE IF sep = B("]") THEN Ok(List(Append(acc, r.v)), Tail(r.rest))
         ELSE Fail

\* members of an object after '{' (at least one), up to and including '}'
ParseMembers(t, acc) ==
    IF Len(t) < 2 \/ ~t[1].q \/ t[2] # B(":") THEN Fail
    ELSE LET r == ParseValue(SubSeq(t, 3, Len(t))) IN
         IF ~r.ok \/ r.rest = <<>> THEN Fail
         ELSE LET sep == Head(r.rest)
                  o   == DictSet(acc, t[1].s, r.v) IN
              IF sep = B(",") THEN ParseMembers(Tail(r.rest), o)
              ELSE IF sep = B("}") THEN Ok(Dict(o), Tail(r.rest))
              ELSE Fail

ParseValue(t) ==
    IF t = <<>> THEN Fail
    ELSE LET h == Head(t) IN
         IF h.q THEN Ok(Str(h.s), Tail(t))
         ELSE IF h.s = "null" THEN Ok(None, Tail(t))
         ELSE IF h.s \in IntLits THEN Ok(PyInt(IntOf(h.s)), Tail(t))
         ELSE IF h.s = "[" THEN
              IF Len(t) >= 2 /\ t[2] = B("]") THEN Ok(List(<<>>), SubSeq(t, 3, Len(t)))
              ELSE ParseElems(Tail(t), <<>>)
         ELSE IF h.s = "{" THEN
              IF Len(t) >= 2 /\ t[2] = B("}") THEN Ok(Dict(<<>>), SubSeq(t, 3, Len(t)))
              ELSE ParseMembers(Tail(t), <<>>)
         ELSE Fail

\* json.loads(text): ok = FALSE stands for raising json.JSONDecodeError
Loads(text) ==
    LET r == ParseValue(text) IN
    IF r.ok /\ r.rest = <<>> THEN [ok |-> TRUE, v |-> r.v] ELSE [ok |-> FALSE, v |-> None]

\* ------------------------------------------------------------------ inputs
Slash == B("/")
Stem  == <<B("http://localhost:8080")>>

RECURSIVE Slashes(_)
Slashes(n) == IF n = 0 THEN <<>> ELSE <<Slash>> \o Slashes(n - 1)

\* constructor arguments: the stem followed by 0..MaxSlashes '/' characters
BaseUrls == {Stem \o Slashes(n) : n \in 0..MaxSlashes}

\* opaque request documents handed to start_run
Docs ==
    { Dict(<<>>),
      Dict(<< <<"id", Str("r1")>>, <<"tasks", List(<<>>)>> >>),
      Dict(<< <<"id", Str("r2")>>,
              <<"policy", Dict(<< <<"max_parallelism", PyInt(1)>> >>)>>,
              <<"tasks", List(<< Dict(<< <<"id", Str("analysis")>>, <<"deps", None>> >>) >>)>> >>) }

\* run identifiers; the second is not URL-safe
RunIds == { RawStr(<<B("r1")>>), RawStr(<<B("a"), Slash, B("b")>>) }

\* JSON documents a server puts in a response body
RunDoc == Dict(<< <<"id", Str("r1")>>, <<"state", Str("running")>> >>)
JsonBodies ==
    { RunDoc, Dict(<<>>), List(<<>>), List(<<PyInt(1)>>), Str("s"), None,
      Dict(<< <<"code", Str("run_not_found")>>, <<"message", Str("no such run")>> >>),
      Dict(<< <<"message", Str("already finished")>>, <<"code", Str("run_completed")>>,
              <<"detail", PyInt(0)>> >>),
      Dict(<< <<"code", None>>, <<"message", None>> >>),
      Dict(<< <<"message", Str("m")>> >>),
      Dict(<< <<"code", Str("c")>> >>) }

\* response bodies: nothing, JSON texts, plain text, a truncated JSON text
Bodies ==
    { <<>>, <<B("internal error")>>, <<B("{"), Q("code"), B(":")>> }
    \cup { Dumps(v) : v \in JsonBodies }

NoLocation == <<>>
Location   == <<B("http://localhost:8080"), B("/other")>>

HttpResponse(status, location, body) ==
    [kind |-> "http", status |-> status, location |-> location, body |-> body]
\* no response at all: connection refused, timeout
TransportFailure ==
    [kind |-> "fail", status |-> 0, location |-> NoLocation, body |-> <<>>]

\* bodies of the documented error shape {"code", "message"}
ErrorDocs == {v \in JsonBodies : v.k = "dict" /\ HasKey(v.o, "code") /\ HasKey(v.o, "message")}

Responses ==
    { HttpResponse(s, NoLocation, b) : s \in {200, 500}, b \in Bodies }
    \cup { HttpResponse(s, NoLocation, Dumps(v)) : s \in {404, 409}, v \in ErrorDocs }
    \cup { HttpResponse(s, l, <<>>) : s \in {302, 304, 307}, l \in {NoLocation, Location} }
    \cup { TransportFailure }

\* ------------------------------------------------------------------- state
VARIABLES
    base_url,    \* the argument the client was constructed with
    _base_url,   \* RuntimeClient._base_url
    pc,          \* "idle": no call yet; "wait": blocked in urlopen; "done": call returned or raised
    call,        \* the call in progress or last completed: [op, arg]
    sent,        \* the HTTP requests this call has issued, in order
    rcvd,        \* the responses this call has received, in order
    outcome,     \* what the call returned or raised
    prev         \* the previous exchange, kept while the next call repeats its arguments

vars == <<base_url, _base_url, pc, call, sent, rcvd, outcome, prev>>

NoCall    == [op |-> "none", arg |-> None]
NoOutcome == [kind |-> "none", exc |-> "", value |-> None, code |-> None, message |-> None]
NoPrev    == [set |-> FALSE, sent |-> <<>>, rcvd |-> <<>>, outcome |-> NoOutcome]

Return(v) == [kind |-> "return", exc |-> "", value |-> v, code |-> None, message |-> None]
Raise(exc) == [kind |-> "raise", exc |-> exc, value |-> None, code |-> None, message |-> None]

\* errors.py: RuntimeError(code, message)
RuntimeError(code, message) ==
    [kind |-> "raise", exc |-> "RuntimeError", value |-> None, code |-> code, message |-> message]

\* ------------------------------------------------------------ construction
\* str.rstrip("/"): drops every trailing '/'
RECURSIVE rstrip(_)
rstrip(s) ==
    IF s # <<>> /\ s[Len(s)] = Slash THEN rstrip(SubSeq(s, 1, Len(s) - 1)) ELSE s

\* (a plausible slip: only one trailing '/' dropped)
__init___strip_one(b) ==
    IF b # <<>> /\ b[Len(b)] = Slash THEN SubSeq(b, 1, Len(b) - 1) ELSE b

\* RuntimeClient.__init__: the value stored in self._base_url
__init__(b) == rstrip(b)

Init ==
    /\ base_url \in BaseUrls
    /\ _base_url = __init__(base_url)
    /\ pc = "idle"
    /\ call = NoCall
    /\ sent = <<>>
    /\ rcvd = <<>>
    /\ outcome = NoOutcome
    /\ prev = NoPrev

\* ---------------------------------------------------------------- requests
_VERSION_HEADER == "X-Runtime-Version"
_VERSION        == "v1"

\* urllib.request.Request(url, data=data, method=method)
Request(url, data, method) ==
    [url |-> url, data |-> data, method |-> method, headers |-> {}]

\* Request.add_header(key, val)
add_header(req, key, val) ==
    [req EXCEPT !.headers = {h \in @ : h[1] # key} \cup {<<key, val>>}]

\* RuntimeClient._get up to the call of _execute: the request it builds
_get(self_base_url, path) ==
    add_header(Request(self_base_url \o path, None, "GET"), _VERSION_HEADER, _VERSION)

\* (a plausible slip: Content-Type added to every POST)
_post_always_content_type(self_base_url, path, body) ==
    LET url  == self_base_url \o path
        data == IF Truthy(body) THEN Bytes(Dumps(body)) ELSE None
        req  == add_header(Request(url, data, "POST"), _VERSION_HEADER, _VERSION)
    IN  add_header(req, "Content-Type", "application/json")

\* RuntimeClient._post up to the call of _execute: the request it builds
_post(self_base_url, path, body) ==
    LET url  == self_base_url \o path
        data == IF Truthy(body) THEN Bytes(Dumps(body)) ELSE None
        req  == add_header(Request(url, data, "POST"), _VERSION_HEADER, _VERSION)
    IN  IF Truthy(data) THEN add_header(req, "Content-Type", "application/json") ELSE req

\* entering urlopen(req): the request goes out and the call blocks
Begin(c, req) ==
    /\ pc \in {"idle", "done"}
    /\ pc' = "wait"
    /\ prev' = IF pc = "done" /\ c = call
               THEN [set |-> TRUE, sent |-> sent, rcvd |-> rcvd, outcome |-> outcome]
               ELSE NoPrev
    /\ call' = c
    /\ sent' = <<req>>
    /\ rcvd' = <<>>
    /\ outcome' = NoOutcome

start_run(request) ==
    /\ Begin([op |-> "start_run", arg |-> request],
             _post(_base_url, <<B("/api/v1/runs")>>, request))
    /\ UNCHANGED <<base_url, _base_url>>

\* (a plausible slip: the built URL stored back into self._base_url)
get_status_keeps_url(run_id) ==
    /\ Begin([op |-> "get_status", arg |-> run_id],
             _get(_base_url, <<B("/api/v1/runs/")>> \o run_id.t))
    /\ _base_url' = _base_url \o <<B("/api/v1/runs/")>> \o run_id.t
    /\ UNCHANGED base_url

get_status(run_id) ==
    /\ Begin([op |-> "get_status", arg |-> run_id],
             _get(_base_url, <<B("/api/v1/runs/")>> \o run_id.t))
    /\ UNCHANGED <<base_url, _base_url>>

abort_run(run_id) ==
    /\ Begin([op |-> "abort_run", arg |-> run_id],
             _post(_base_url, <<B("/api/v1/runs/")>> \o run_id.t \o <<B("/abort")>>, None))
    /\ UNCHANGED <<base_url, _base_url>>

\* ------------------------------------------------------------------ urlopen
\* What urllib's default opener does with a response to req:
\*   "response"  2xx: handed back to the caller
\*   "redirect"  HTTPRedirectHandler follows it with a new request
\*   "HTTPError" every other status is raised as urllib.error.HTTPError
\*   "URLError"  no response
urlopen(req, r) ==
    IF r.kind = "fail" THEN "URLError"
    ELSE IF 200 <= r.status /\ r.status < 300 THEN "response"
    ELSE IF /\ r.location # NoLocation
            /\ \/ r.status \in {301, 302, 303, 307, 308} /\ req.method \in {"GET", "HEAD"}
               \/ r.status \in {301, 302, 303} /\ req.method = "POST"
         THEN "redirect"
    ELSE "HTTPError"

\* HTTPRedirectHandler.redirect_request: a GET for the new location, the
\* original headers kept except the content headers
redirect_request(req, r) ==
    [url |-> r.location, data |-> None, method |-> "GET",
     headers |-> {h \in req.headers : h[1] \notin {"Content-Length", "Content-Type"}}]

\* _execute, the body of the `with` block: read the response, parse it
\* (a plausible slip: `json.loads(body) or {}`)
_execute_try_or(r) ==
    IF r.body # <<>>
    THEN IF Loads(r.body).ok
         THEN Return(IF Truthy(Loads(r.body).v) THEN Loads(r.body).v ELSE Dict(<<>>))
         ELSE Raise("JSONDecodeError")
    ELSE Return(Dict(<<>>))

_execute_try(r) ==
    IF r.body # <<>>
    THEN IF Loads(r.body).ok THEN Return(Loads(r.body).v) ELSE Raise("JSONDecodeError")
    ELSE Return(Dict(<<>>))

\* _execute, the handler of urllib.error.HTTPError
\* (a plausible slip: the message always taken from the raw body)
_execute_except_rawmsg(r) ==
    LET body == r.body
        err  == Loads(body)
    IN  IF ~err.ok
        THEN RuntimeError(Str("http_error"),
                          RawStr(<<B("HTTP "), B(ToString(r.status)), B(": ")>> \o body))
        ELSE IF err.v.k # "dict" THEN Raise("AttributeError")
        ELSE RuntimeError(DictGet(err.v.o, "code", Str("unknown")), RawStr(body))

_execute_except(r) ==
    LET body == r.body
        err  == Loads(body)
    IN  IF ~err.ok
        THEN RuntimeError(Str("http_error"),
                          RawStr(<<B("HTTP "), B(ToString(r.status)), B(": ")>> \o body))
        ELSE IF err.v.k # "dict" THEN Raise("AttributeError")
        ELSE RuntimeError(DictGet(err.v.o, "code", Str("unknown")),
                          DictGet(err.v.o, "message", RawStr(body)))

\* RuntimeClient._execute once urlopen has ended with response r;
\* URLError is not caught
_execute(req, r) ==
    CASE urlopen(req, r) = "URLError"  -> Raise("URLError")
      [] urlopen(req, r) = "response"  -> _execute_try(r)
      [] urlopen(req, r) = "HTTPError" -> _execute_except(r)

\* what the public method does with what _get/_post returned or raised
Result(op, out) ==
    IF op = "abort_run" /\ out.kind = "return" THEN Return(None) ELSE out

\* the server answers the request in flight with a redirect urllib follows
Redirect(r) ==
    /\ pc = "wait"
    /\ Len(sent) <= MaxHops
    /\ urlopen(sent[Len(sent)], r) = "redirect"
    /\ sent' = Append(sent, redirect_request(sent[Len(sent)], r))
    /\ rcvd' = Append(rcvd, r)
    /\ UNCHANGED <<base_url, _base_url, pc, call, outcome, prev>>

\* the exchange ends: a final response or a transport failure
Response(r) ==
    /\ pc = "wait"
    /\ urlopen(sent[Len(sent)], r) # "redirect"
    /\ rcvd' = Append(rcvd, r)
    /\ outcome' = Result(call.op, _execute(sent[Len(sent)], r))
    /\ pc' = "done"
    /\ UNCHANGED <<base_url, _base_url, call, sent, prev>>

Next ==
    \/ \E request \in Docs : start_run(request)
    \/ \E run_id \in RunIds : get_status(run_id)
    \/ \E run_id \in RunIds : abort_run(run_id)
    \/ \E r \in Responses : Redirect(r)
    \/ \E r \in Responses : Response(r)

Spec == Init /\ [][Next]_vars

\* ================================================================== claims
Final == rcvd[Len(rcvd)]
Done  == pc = "done"
FinalStatusIn(lo, hi) == Final.kind = "http" /\ lo <= Final.status /\ Final.status <= hi

\* the value of a key of a document, read off its pairs
FieldOf(d, key) == d.o[CHOOSE i \in DOMAIN d.o : d.o[i][1] = key][2]

Contains(text, sub) ==
    \E i \in 1..(Len(text) + 1) :
        i + Len(sub) - 1 <= Len(text) /\ SubSeq(text, i, i + Len(sub) - 1) = sub

\* C1: a response with status >= 400 whose body is a JSON object with `code`
\* and `message` makes the call raise RuntimeError carrying exactly that code
\* and that message, whichever operation was called.
C1_ErrorBodyPassedThrough ==
    Done =>
        \A d \in ErrorDocs :
            (FinalStatusIn(400, 599) /\ Final.body = Dumps(d))
            => outcome = RuntimeError(FieldOf(d, "code"), FieldOf(d, "message"))

C1_Witness ==
    /\ Done /\ call.op = "abort_run" /\ FinalStatusIn(409, 409)
    /\ outcome.exc = "RuntimeError"
    /\ outcome.code = Str("run_completed") /\ outcome.message = Str("already finished")

\* C2 (as claimed): a response with status >= 400 whose body is empty, not
\* JSON, or JSON of another shape than {code, message} makes the call raise
\* RuntimeError with code http_error and a message containing the status
\* code and the raw body.
C2_MalformedIsHttpError ==
    (Done /\ FinalStatusIn(400, 599) /\ Final.body \notin {Dumps(d) : d \in ErrorDocs})
    => /\ outcome.exc = "RuntimeError"
       /\ outcome.code = Str("http_error")
       /\ outcome.message.k = "text"
       /\ Contains(outcome.message.t, <<B(ToString(Final.status))>>)
       /\ Contains(outcome.message.t, Final.body)

\* C3 (as claimed): the POST start_run sends always has a body, and the body
\* is the JSON encoding of the request document, the empty document included.
C3_BodyIsEncodingOfRequest ==
    (pc # "idle" /\ call.op = "start_run")
    => /\ sent[1].data.k = "bytes"
       /\ Loads(sent[1].data.b) = [ok |-> TRUE, v |-> call.arg]

\* C4: start_run and get_status return, on a success status, the document
\* the body encodes, unchanged, and the empty document for an empty body.
C4_SuccessBodyReturned ==
    (Done /\ call.op \in {"start_run", "get_status"} /\ FinalStatusIn(200, 299))
    => /\ Final.body = <<>> => outcome = Return(Dict(<<>>))
       /\ \A v \in JsonBodies : Final.body = Dumps(v) => outcome = Return(v)

C4_Witness ==
    /\ Done /\ call.op = "get_status" /\ FinalStatusIn(200, 200)
    /\ Final.body = Dumps(RunDoc) /\ outcome = Return(RunDoc)

\* C5 (as claimed): abort_run returns None on every success status, whatever
\* the body of the response.
C5_AbortIgnoresBody ==
    (Done /\ call.op = "abort_run" /\ FinalStatusIn(200, 299)) => outcome = Return(None)

\* C6 (as claimed): RuntimeError is raised only on a status >= 400; a
\* transport failure and an unparseable success body raise another error.
C6_DomainErrorOnlyFrom400 ==
    Done =>
        /\ outcome.exc = "RuntimeError" => FinalStatusIn(400, 599)
        /\ Final.kind = "fail" => (outcome.kind = "raise" /\ outcome.exc # "RuntimeError")
        /\ (FinalStatusIn(200, 299) /\ Final.body # <<>> /\ ~Loads(Final.body).ok)
           => (outcome.kind = "raise" /\ outcome.exc # "RuntimeError")

\* C7: every request carries X-Runtime-Version: v1, and carries
\* Content-Type: application/json exactly when it is a POST with a non-empty
\* body; no request carries any other Content-Type.
C7_Headers ==
    \A i \in DOMAIN sent :
        /\ <<"X-Runtime-Version", "v1">> \in sent[i].headers
        /\ (<<"Content-Type", "application/json">> \in sent[i].headers)
           <=> (sent[i].method = "POST" /\ sent[i].data.k = "bytes" /\ sent[i].data.b # <<>>)
        /\ \A h \in sent[i].headers : h[1] = "Content-Type" => h[2] = "application/json"

C7_Witness ==
    /\ Done /\ call.op = "start_run" /\ call.arg # Dict(<<>>)
    /\ sent[1].method = "POST" /\ sent[1].data = Bytes(Dumps(call.arg))
    /\ <<"Content-Type", "application/json">> \in sent[1].headers

\* C8 (as claimed): construction removes exactly one trailing '/' when there
\* is one.
StripOne(b) == IF b # <<>> /\ b[Len(b)] = Slash THEN SubSeq(b, 1, Len(b) - 1) ELSE b
C8_SingleSlashStripped == _base_url = StripOne(base_url)

\* C8 (amended): construction removes every trailing '/' and nothing else:
\* the stored URL does not end in '/', and the argument is the stored URL
\* followed by '/' characters only.
C8_AllSlashesStripped ==
    /\ _base_url = <<>> \/ _base_url[Len(_base_url)] # Slash
    /\ \E n \in 0..Len(base_url) : base_url = _base_url \o Slashes(n)

C8_Witness ==
    /\ Len(base_url) >= 2
    /\ base_url[Len(base_url)] = Slash /\ base_url[Len(base_url) - 1] = Slash
    /\ _base_url = Stem

\* C9 (as claimed): a call issues exactly one request, the one the operation
\* names, whatever the outcome.
C9_OneCallOneRequest ==
    pc # "idle" =>
        /\ Len(sent) = 1
        /\ call.op = "start_run" =>
             (sent[1].method = "POST" /\ sent[1].url = _base_url \o <<B("/api/v1/runs")>>)
        /\ call.op = "get_status" =>
             (sent[1].method = "GET"
              /\ sent[1].url = _base_url \o <<B("/api/v1/runs/")>> \o call.arg.t)
        /\ call.op = "abort_run" =>
             (sent[1].method = "POST"
              /\ sent[1].url = _base_url \o <<B("/api/v1/runs/")>> \o call.arg.t \o <<B("/abort")>>)

\* C10: the client is stateless: the stored base URL stays the one set at
\* construction, and a call that repeats the arguments of the call before it
\* sends the same first request and, given the same responses, sends the
\* same requests and ends the same way.
C10_Stateless ==
    /\ _base_url = rstrip(base_url)
    /\ prev.set =>
         /\ sent[1] = prev.sent[1]
         /\ (Done /\ rcvd = prev.rcvd) => (sent = prev.sent /\ outcome = prev.outcome)

C10_Witness ==
    /\ Done /\ prev.set /\ rcvd = prev.rcvd
    /\ call.op = "get_status" /\ outcome.exc = "RuntimeError"
    /\ outcome = prev.outcome
====
